---- MODULE Spec2Model ----
(***************************************************************************)
(* A model of analysis.py: one run of main(), which loads                  *)
(* calculated_priorities.csv, scans it with detect_priority_issues and     *)
(* prints the report of analyze_priority_formula.                          *)
(*                                                                         *)
(* Numbers.  CalculatedPriority and ChangeRatio are decimal fractions in   *)
(* the program; the model keeps them as integers counted in hundredths     *)
(* (0.05 is 5, 0.9 is 90) and compares them exactly.  The median and the   *)
(* 0.75-quantile may fall between two values, so they are kept multiplied  *)
(* by 2 and by 4 and the comparisons are scaled accordingly.  TableSize    *)
(* and TimeSinceLastAnalyze are integers as they stand.                    *)
(***************************************************************************)
EXTENDS Integers, Sequences, FiniteSets

VARIABLES
    csv,                       \* the input file: [exists, columns, rows]
    df,                        \* the loaded DataFrame: [columns, rows]
    pc,                        \* where main() is
    raised,                    \* the exception that ended the run, or "none"
    issues,                    \* detect_priority_issues' five results
    large_blocking_small,
    small_blocking_large,
    starved_tables,
    high_change_low_priority,
    section,                   \* index into issue_types in the report loop
    stdout                     \* the lines printed so far

vars == <<csv, df, pc, raised, issues, large_blocking_small, small_blocking_large,
          starved_tables, high_change_low_priority, section, stdout>>

----------------------------------------------------------------------------
(* Constants of analysis.py *)

\* 0.05, in hundredths
PRIORITY_DIFFERENCE_THRESHOLD == 5

TABLE_SIZE_RATIO_THRESHOLD == 2

STARVATION_THRESHOLD_DAYS == 2

\* 0.75 as <<numerator, denominator>>
CHANGE_RATIO_QUANTILE == <<3, 4>>

LARGE_BLOCKING_SMALL_THRESHOLD == 10

SMALL_BLOCKING_LARGE_THRESHOLD == 10

STARVED_TABLES_THRESHOLD == 5

HIGH_CHANGE_LOW_PRIORITY_THRESHOLD == 5

SECONDS_PER_DAY == 24 * 3600

\* issue_list[:5] and len(issue_list) > 5 in the report loop
REPORT_LIMIT == 5

AllColumns == {"ID", "TableSize", "CalculatedPriority", "TimeSinceLastAnalyze", "ChangeRatio"}

\* the four evidence lists, in the order of issue_types
Categories == <<"large_blocking_small", "small_blocking_large",
                "starved_tables", "high_change_low_priority">>

CategorySet == {Categories[k] : k \in 1..Len(Categories)}

----------------------------------------------------------------------------
(* Bounds of the model *)

\* longest dataset of the two exhaustive families
MaxLen == 3

\* block family: most low-priority records at the head of the dataset
MaxLow == 7

\* block family: most (large, small) couples after the head
MaxCouples == 11

\* datasets loaded with a column missing: the block family up to these sizes
MaxShapeLow == 2

MaxShapeCouples == 1

----------------------------------------------------------------------------
(* Series statistics (pandas), exact *)

Range(s) == {s[j] : j \in DOMAIN s}

Column(rows, c) == [j \in 1..Len(rows) |-> rows[j][c]]

\* the k-th smallest value of s, k counted from 0
OrderStat(s, k) ==
    CHOOSE v \in Range(s) :
        /\ Cardinality({j \in DOMAIN s : s[j] < v}) <= k
        /\ k < Cardinality({j \in DOMAIN s : s[j] <= v})

\* twice Series.median(): the middle value, or the mean of the two middle ones
MedianTimes2(s) ==
    LET n == Len(s) IN
    IF n % 2 = 1 THEN 2 * OrderStat(s, (n - 1) \div 2)
    ELSE OrderStat(s, n \div 2 - 1) + OrderStat(s, n \div 2)

\* q[2] times Series.quantile(q[1]/q[2]), linear interpolation between the
\* two order statistics around position (n-1)*q
QuantileScaled(s, q) ==
    LET pos == (Len(s) - 1) * q[1]
        lo  == pos \div q[2]
        fr  == pos % q[2]
    IN  IF fr = 0 THEN q[2] * OrderStat(s, lo)
        ELSE q[2] * OrderStat(s, lo) + fr * (OrderStat(s, lo + 1) - OrderStat(s, lo))

----------------------------------------------------------------------------
(* detect_priority_issues: the four rules *)

\* mutant: the boundary size counts as larger (>= for >)
SizeLargerOrEqual(cur, nxt) ==
    cur.TableSize >= nxt.TableSize * TABLE_SIZE_RATIO_THRESHOLD

SizeLarger(cur, nxt) ==
    cur.TableSize > nxt.TableSize * TABLE_SIZE_RATIO_THRESHOLD

\* mutant: the second rule keeps the first rule's size test
SizeSmallerCopied(cur, nxt) ==
    cur.TableSize > nxt.TableSize * TABLE_SIZE_RATIO_THRESHOLD

SizeSmaller(cur, nxt) ==
    cur.TableSize * TABLE_SIZE_RATIO_THRESHOLD < nxt.TableSize

PriorityGap(cur, nxt) ==
    cur.CalculatedPriority - nxt.CalculatedPriority > PRIORITY_DIFFERENCE_THRESHOLD

LargeBlocksSmall(cur, nxt) == SizeLarger(cur, nxt) /\ PriorityGap(cur, nxt)

SmallBlocksLarge(cur, nxt) == SizeSmaller(cur, nxt) /\ PriorityGap(cur, nxt)

TimeExceeded(cur) ==
    cur.TimeSinceLastAnalyze > STARVATION_THRESHOLD_DAYS * SECONDS_PER_DAY

\* mutant: a priority equal to the median counts as low (<= for <)
AtOrBelowMedian(rows, cur) ==
    2 * cur.CalculatedPriority <= MedianTimes2(Column(rows, "CalculatedPriority"))

BelowMedian(rows, cur) ==
    2 * cur.CalculatedPriority < MedianTimes2(Column(rows, "CalculatedPriority"))

ChangeHigh(rows, cur) ==
    CHANGE_RATIO_QUANTILE[2] * cur.ChangeRatio
        > QuantileScaled(Column(rows, "ChangeRatio"), CHANGE_RATIO_QUANTILE)

Starved(rows, cur) == TimeExceeded(cur) /\ BelowMedian(rows, cur)

HighChangeLowPriority(rows, cur) == ChangeHigh(rows, cur) /\ BelowMedian(rows, cur)

\* range(len(df) - 1): the number of scan positions
ScanCount(rows) == IF Len(rows) > 1 THEN Len(rows) - 1 ELSE 0

\* mutant: df.iloc[-1], the last record, for the next one
NextTableLast(rows, i) == rows[Len(rows)]

\* df.iloc[i+1]
NextTable(rows, i) == rows[i + 1]

Fires(cat, rows, i) ==
    CASE cat = "large_blocking_small"     -> LargeBlocksSmall(rows[i], NextTable(rows, i))
      [] cat = "small_blocking_large"     -> SmallBlocksLarge(rows[i], NextTable(rows, i))
      [] cat = "starved_tables"           -> Starved(rows, rows[i])
      [] cat = "high_change_low_priority" -> HighChangeLowPriority(rows, rows[i])

Evidence(cat, rows, i) ==
    LET cur == rows[i]
        nxt == NextTable(rows, i)
    IN  CASE cat \in {"large_blocking_small", "small_blocking_large"} ->
                 <<cur.ID, nxt.ID, cur.TableSize, nxt.TableSize>>
          [] cat = "starved_tables" ->
                 <<cur.ID, cur.TimeSinceLastAnalyze, cur.CalculatedPriority>>
          [] cat = "high_change_low_priority" ->
                 <<cur.ID, cur.ChangeRatio, cur.CalculatedPriority>>

\* mutant: list.insert(0, e)
PrependEvidence(list, e) == <<e>> \o list

\* list.append
AppendEvidence(list, e) == Append(list, e)

\* the list of category cat after scan positions 1..i
RECURSIVE ScanList(_, _, _)
ScanList(cat, rows, i) ==
    IF i = 0 THEN <<>>
    ELSE IF Fires(cat, rows, i)
         THEN AppendEvidence(ScanList(cat, rows, i - 1), Evidence(cat, rows, i))
         ELSE ScanList(cat, rows, i - 1)

DetectList(cat, rows) == ScanList(cat, rows, ScanCount(rows))

\* Whether iteration i reads a column the DataFrame lacks (KeyError).  Python's
\* `and` evaluates its right operand only when the left one is true, and the
\* evidence tuple (with ID) is built only when the rule fires.
IterationRaises(cols, rows, i) ==
    LET cur == rows[i]
        nxt == NextTable(rows, i)
    IN  \/ "TableSize" \notin cols
        \/ /\ "CalculatedPriority" \notin cols
           /\ SizeLarger(cur, nxt) \/ SizeSmaller(cur, nxt)
        \/ /\ "ID" \notin cols
           /\ LargeBlocksSmall(cur, nxt) \/ SmallBlocksLarge(cur, nxt)
        \/ "TimeSinceLastAnalyze" \notin cols
        \/ "CalculatedPriority" \notin cols /\ TimeExceeded(cur)
        \/ "ID" \notin cols /\ Starved(rows, cur)
        \/ "ChangeRatio" \notin cols
        \/ "CalculatedPriority" \notin cols /\ ChangeHigh(rows, cur)
        \/ "ID" \notin cols /\ HighChangeLowPriority(rows, cur)

DetectRaises(cols, rows) ==
    \E i \in 1..ScanCount(rows) : IterationRaises(cols, rows, i)

----------------------------------------------------------------------------
(* detect_priority_issues: the summary *)

Threshold(cat) ==
    CASE cat = "large_blocking_small"     -> LARGE_BLOCKING_SMALL_THRESHOLD
      [] cat = "small_blocking_large"     -> SMALL_BLOCKING_LARGE_THRESHOLD
      [] cat = "starved_tables"           -> STARVED_TABLES_THRESHOLD
      [] cat = "high_change_low_priority" -> HIGH_CHANGE_LOW_PRIORITY_THRESHOLD

\* mutant: a list as long as its threshold is reported (>= for >)
ExceedsOrEqual(n, threshold) == n >= threshold

Exceeds(n, threshold) == n > threshold

\* f"Found {len(list)} instances ...": the category and the number in it
IssueText(cat, n) == [cat |-> cat, n |-> n]

SummaryFor(cat, list) ==
    IF Exceeds(Len(list), Threshold(cat)) THEN <<IssueText(cat, Len(list))>> ELSE <<>>

Summarize(lbs, sbl, st, hclp) ==
    SummaryFor("large_blocking_small", lbs) \o SummaryFor("small_blocking_large", sbl)
        \o SummaryFor("starved_tables", st) \o SummaryFor("high_change_low_priority", hclp)

----------------------------------------------------------------------------
(* analyze_priority_formula: the printed lines *)

Line(kind, cat, n, inst) == [kind |-> kind, cat |-> cat, n |-> n, inst |-> inst]

\* issue_list[:5]
Shown(list) == SubSeq(list, 1, IF Len(list) < REPORT_LIMIT THEN Len(list) ELSE REPORT_LIMIT)

\* mutant: the remainder line is printed for five entries too (>= for >)
HasMoreOrEqual(list) == Len(list) >= REPORT_LIMIT

HasMore(list) == Len(list) > REPORT_LIMIT

IssueLines ==
    IF issues # <<>>
    THEN <<Line("issues_header", "", 0, <<>>)>>
            \o [k \in 1..Len(issues) |-> Line("issue", issues[k].cat, issues[k].n, <<>>)]
    ELSE <<Line("no_issues", "", 0, <<>>)>>

SectionLines(cat, list) ==
    IF list = <<>> THEN <<>>
    ELSE <<Line("section", cat, 0, <<>>)>>
            \o [k \in 1..Len(Shown(list)) |-> Line("instance", cat, 0, Shown(list)[k])]
            \o (IF HasMore(list)
                THEN <<Line("more", cat, Len(list) - REPORT_LIMIT, <<>>)>>
                ELSE <<>>)

ListOf(cat) ==
    CASE cat = "large_blocking_small"     -> large_blocking_small
      [] cat = "small_blocking_large"     -> small_blocking_large
      [] cat = "starved_tables"           -> starved_tables
      [] cat = "high_change_low_priority" -> high_change_low_priority

\* the columns create_priority_visualizations reads
PlottedColumns == {"ChangeRatio", "CalculatedPriority", "TableSize", "TimeSinceLastAnalyze"}

StatisticsLines ==
    <<Line("stats_header", "", 0, <<>>),
      Line("corr", "ChangeRatio", 0, <<>>),
      Line("corr", "TableSize", 0, <<>>),
      Line("corr", "TimeSinceLastAnalyze", 0, <<>>)>>

----------------------------------------------------------------------------
(* The inputs: what calculated_priorities.csv may hold *)

Rec(id, size, prio, time, change) ==
    [ID |-> id, TableSize |-> size, CalculatedPriority |-> prio,
     TimeSinceLastAnalyze |-> time, ChangeRatio |-> change]

\* Exhaustive family 1: sizes and priorities vary (the two pairwise rules).
SizeValues == {-2, -1, 1, 2, 5}

SizePriorityValues == {40, 50}

\* Exhaustive family 2: priority, time and change ratio vary (the two
\* per-record rules).  172800 s is exactly two days.
RatePriorityValues == {40, 45, 50}

TimeValues == {172800, 200000}

ChangeValues == {10, 20}

SizeTuples == {<<s, p, 200000, 10>> : s \in SizeValues, p \in SizePriorityValues}

RateTuples == {<<1, p[1], p[2], c>> : p \in RatePriorityValues \X TimeValues, c \in ChangeValues}

\* IDs are opaque: these families number the rows downwards from 100
Rows(f) == [j \in 1..Len(f) |-> Rec(100 - j, f[j][1], f[j][2], f[j][3], f[j][4])]

TupleSeqs(S) == UNION {[1..n -> S] : n \in 0..MaxLen}

SmallDatasets == {Rows(f) : f \in TupleSeqs(SizeTuples) \cup TupleSeqs(RateTuples)}

\* Block family: low low-priority records (the first t of them overdue, the
\* last h of them with a high change ratio), then couples of a large and a
\* small table (large first when dir = "desc"), the first of each couple with
\* the higher priority.
BlockDataset(low, couples, t, h, dir) ==
    [j \in 1..(low + 2 * couples) |->
        IF j <= low
        THEN Rec(j, 1, 10, IF j <= t THEN 200000 ELSE 172800, IF j > low - h THEN 20 ELSE 10)
        ELSE IF (j - low) % 2 = 1
             THEN Rec(j, IF dir = "desc" THEN 9 ELSE 1, 60, 0, 10)
             ELSE Rec(j, IF dir = "desc" THEN 1 ELSE 9, 50, 0, 10)]

BlockDatasets(maxLow, maxCouples) ==
    {BlockDataset(low, c, th[1], th[2], dir) :
        low \in 0..maxLow, c \in 0..maxCouples,
        th \in (0..maxLow) \X (0..maxLow), dir \in {"desc", "asc"}}

\* the three-record example of the specification's testable properties
SpecExample ==
    <<Rec(1, 1000, 90, 0, 10), Rec(2, 10, 50, 0, 10), Rec(3, 5, 50, 200000, 10)>>

Inputs ==
    {[exists |-> FALSE, columns |-> {}, rows |-> <<>>]}
    \cup {[exists |-> TRUE, columns |-> AllColumns, rows |-> r] :
            r \in SmallDatasets \cup BlockDatasets(MaxLow, MaxCouples) \cup {SpecExample}}
    \cup {[exists |-> TRUE, columns |-> AllColumns \ {c}, rows |-> r] :
            c \in AllColumns, r \in BlockDatasets(MaxShapeLow, MaxShapeCouples)}

----------------------------------------------------------------------------
(* The run of main() *)

Init ==
    /\ csv \in Inputs
    /\ df = [columns |-> {}, rows |-> <<>>]
    /\ pc = "load_data"
    /\ raised = "none"
    /\ issues = <<>>
    /\ large_blocking_small = <<>>
    /\ small_blocking_large = <<>>
    /\ starved_tables = <<>>
    /\ high_change_low_priority = <<>>
    /\ section = 1
    /\ stdout = <<>>

Results == <<issues, large_blocking_small, small_blocking_large,
             starved_tables, high_change_low_priority>>

\* pd.read_csv on a file that exists
LoadData ==
    /\ pc = "load_data"
    /\ csv.exists
    /\ df' = [columns |-> csv.columns, rows |-> csv.rows]
    /\ pc' = "detect"
    /\ UNCHANGED <<csv, raised, Results, section, stdout>>

\* pd.read_csv on a missing file
LoadDataFails ==
    /\ pc = "load_data"
    /\ ~csv.exists
    /\ pc' = "error"
    /\ raised' = "FileNotFoundError"
    /\ UNCHANGED <<csv, df, Results, section, stdout>>

DetectPriorityIssues ==
    /\ pc = "detect"
    /\ ~DetectRaises(df.columns, df.rows)
    /\ large_blocking_small' = DetectList("large_blocking_small", df.rows)
    /\ small_blocking_large' = DetectList("small_blocking_large", df.rows)
    /\ starved_tables' = DetectList("starved_tables", df.rows)
    /\ high_change_low_priority' = DetectList("high_change_low_priority", df.rows)
    /\ issues' = Summarize(large_blocking_small', small_blocking_large',
                           starved_tables', high_change_low_priority')
    /\ pc' = "report_issues"
    /\ UNCHANGED <<csv, df, raised, section, stdout>>

DetectPriorityIssuesFails ==
    /\ pc = "detect"
    /\ DetectRaises(df.columns, df.rows)
    /\ pc' = "error"
    /\ raised' = "KeyError"
    /\ UNCHANGED <<csv, df, Results, section, stdout>>

ReportIssues ==
    /\ pc = "report_issues"
    /\ stdout' = stdout \o IssueLines
    /\ section' = 1
    /\ pc' = "report_instances"
    /\ UNCHANGED <<csv, df, raised, Results>>

\* one iteration of `for issue_name, issue_list in issue_types`
ReportInstances ==
    /\ pc = "report_instances"
    /\ stdout' = stdout \o SectionLines(Categories[section], ListOf(Categories[section]))
    /\ IF section < Len(Categories)
       THEN section' = section + 1 /\ pc' = pc
       ELSE section' = section /\ pc' = "visualize"
    /\ UNCHANGED <<csv, df, raised, Results>>

CreateVisualizations ==
    /\ pc = "visualize"
    /\ PlottedColumns \subseteq df.columns
    /\ stdout' = Append(stdout, Line("visualization", "", 0, <<>>))
    /\ pc' = "statistics"
    /\ UNCHANGED <<csv, df, raised, Results, section>>

CreateVisualizationsFails ==
    /\ pc = "visualize"
    /\ ~(PlottedColumns \subseteq df.columns)
    /\ pc' = "error"
    /\ raised' = "KeyError"
    /\ UNCHANGED <<csv, df, Results, section, stdout>>

ReportStatistics ==
    /\ pc = "statistics"
    /\ stdout' = stdout \o StatisticsLines
    /\ pc' = "done"
    /\ UNCHANGED <<csv, df, raised, Results, section>>

Next ==
    \/ LoadData
    \/ LoadDataFails
    \/ DetectPriorityIssues
    \/ DetectPriorityIssuesFails
    \/ ReportIssues
    \/ ReportInstances
    \/ CreateVisualizations
    \/ CreateVisualizationsFails
    \/ ReportStatistics

Spec == Init /\ [][Next]_vars

----------------------------------------------------------------------------
(* Properties *)

\* the states in which detect_priority_issues has returned its lists
AfterDetect == {"report_issues", "report_instances", "visualize", "statistics", "done"}

\* the states in which the four detail sections have all been printed
AfterSections == {"visualize", "statistics", "done"}

Complete == df.columns = AllColumns

InList(list, e) == \E k \in 1..Len(list) : list[k] = e

PairEntry(rows, i) ==
    <<rows[i].ID, rows[i + 1].ID, rows[i].TableSize, rows[i + 1].TableSize>>

\* the position in the dataset of the record with this ID (IDs are unique)
PosOf(id) == CHOOSE j \in 1..Len(df.rows) : df.rows[j].ID = id

LastRecord == df.rows[Len(df.rows)]

\* C1 (as claimed): in a dataset of at least two records the last record is
\* put through the two per-record rules: if it satisfies the starvation
\* condition it is in starved_tables, and if it satisfies the high-change
\* condition it is in high_change_low_priority.
C1_LastRecordEvaluated ==
    (pc \in AfterDetect /\ Complete /\ Len(df.rows) >= 2) =>
        /\ Starved(df.rows, LastRecord) =>
              InList(starved_tables,
                     <<LastRecord.ID, LastRecord.TimeSinceLastAnalyze,
                       LastRecord.CalculatedPriority>>)
        /\ HighChangeLowPriority(df.rows, LastRecord) =>
              InList(high_change_low_priority,
                     <<LastRecord.ID, LastRecord.ChangeRatio,
                       LastRecord.CalculatedPriority>>)

\* C2: for an adjacent pair of records with non-negative table sizes, the
\* pair's evidence is never in both large_blocking_small and
\* small_blocking_large.
C2_SizeRulesExclusive ==
    (pc \in AfterDetect /\ Complete) =>
        \A i \in 1..ScanCount(df.rows) :
            (df.rows[i].TableSize >= 0 /\ df.rows[i + 1].TableSize >= 0) =>
                ~(/\ InList(large_blocking_small, PairEntry(df.rows, i))
                  /\ InList(small_blocking_large, PairEntry(df.rows, i)))

\* a pair of non-negative sizes, its priorities more than 0.05 apart, that the
\* large-blocks-small rule recorded
C2_Witness ==
    /\ pc \in AfterDetect /\ Complete
    /\ \E i \in 1..ScanCount(df.rows) :
          /\ df.rows[i].TableSize >= 0 /\ df.rows[i + 1].TableSize >= 0
          /\ InList(large_blocking_small, PairEntry(df.rows, i))
          /\ ~InList(small_blocking_large, PairEntry(df.rows, i))

\* C3 (as claimed): a pair with current.table_size = next.table_size * 2 is in
\* neither large_blocking_small nor small_blocking_large, whatever the sizes
\* and the priority difference.
C3_BoundaryNeverFires ==
    (pc \in AfterDetect /\ Complete) =>
        \A i \in 1..ScanCount(df.rows) :
            df.rows[i].TableSize = df.rows[i + 1].TableSize * 2 =>
                /\ ~InList(large_blocking_small, PairEntry(df.rows, i))
                /\ ~InList(small_blocking_large, PairEntry(df.rows, i))

\* C3 (amended): a pair with current.table_size = next.table_size * 2 and
\* non-negative table sizes is in neither large_blocking_small nor
\* small_blocking_large, whatever the priority difference.
C3_BoundaryNonNegative ==
    (pc \in AfterDetect /\ Complete) =>
        \A i \in 1..ScanCount(df.rows) :
            (/\ df.rows[i].TableSize = df.rows[i + 1].TableSize * 2
             /\ df.rows[i + 1].TableSize >= 0) =>
                /\ ~InList(large_blocking_small, PairEntry(df.rows, i))
                /\ ~InList(small_blocking_large, PairEntry(df.rows, i))

\* a scanned pair exactly on the boundary, non-negative, with a priority
\* difference above 0.05
C3_Witness ==
    /\ pc \in AfterDetect /\ Complete
    /\ \E i \in 1..ScanCount(df.rows) :
          /\ df.rows[i].TableSize = df.rows[i + 1].TableSize * 2
          /\ df.rows[i + 1].TableSize >= 0
          /\ df.rows[i].CalculatedPriority - df.rows[i + 1].CalculatedPriority > 5

\* the thresholds as the claim states them
C4_ClaimedThreshold(cat) ==
    IF cat \in {"large_blocking_small", "small_blocking_large"} THEN 10 ELSE 5

\* C4: the summary issue list holds a line for a category if and only if the
\* category's evidence list is strictly longer than its threshold (10, 10, 5,
\* 5); then it holds exactly one, and that line states the list's length.
C4_SummaryIffOverThreshold ==
    pc \in AfterDetect =>
        \A cat \in CategorySet :
            LET lines == {k \in 1..Len(issues) : issues[k].cat = cat}
                n     == Len(ListOf(cat))
            IN  IF n > C4_ClaimedThreshold(cat)
                THEN Cardinality(lines) = 1 /\ \A k \in lines : issues[k].n = n
                ELSE lines = {}

\* eleven large_blocking_small entries and their issue line
C4_Witness ==
    /\ pc \in AfterDetect
    /\ Len(large_blocking_small) = 11
    /\ \E k \in 1..Len(issues) : issues[k] = IssueText("large_blocking_small", 11)

\* C5 (as claimed): on an empty dataset the detector does not return normally.
C5_EmptyDatasetFails ==
    (csv.exists /\ csv.columns = AllColumns /\ csv.rows = <<>>) => pc \notin AfterDetect

\* C6 (as claimed): when a run aborts with an input-shape error, nothing has
\* been written to standard output.
C6_NoOutputBeforeAbort ==
    pc = "error" => stdout = <<>>

\* the records a dataset is extended by
ProbeRecords ==
    {Rec(0, t[1], t[2], t[3], t[4]) : t \in SizeTuples \cup RateTuples}

\* C7 (as claimed): for every dataset D and record r, each of the four
\* evidence lists computed for D with r appended is at least as long as the
\* list computed for D.
C7_AllListsMonotone ==
    (pc = "report_issues" /\ Complete) =>
        \A r \in ProbeRecords : \A cat \in CategorySet :
            Len(DetectList(cat, Append(df.rows, r))) >= Len(ListOf(cat))

\* C7 (amended): for every dataset D and record r, the lists
\* large_blocking_small and small_blocking_large computed for D with r
\* appended are at least as long as those computed for D.
C7_PairListsMonotone ==
    (pc = "report_issues" /\ Complete) =>
        \A r \in ProbeRecords :
            \A cat \in {"large_blocking_small", "small_blocking_large"} :
                Len(DetectList(cat, Append(df.rows, r))) >= Len(ListOf(cat))

\* a dataset with a pairwise entry that an appended record extends by one
C7_Witness ==
    /\ pc = "report_issues" /\ Complete
    /\ Len(large_blocking_small) >= 1
    /\ \E r \in ProbeRecords :
          Len(DetectList("large_blocking_small", Append(df.rows, r)))
              = Len(large_blocking_small) + 1

\* the printed detail lines of a category, in print order
DetailLines(cat) ==
    SelectSeq(stdout, LAMBDA l : l.cat = cat /\ l.kind \in {"section", "instance", "more"})

\* C8: a category with n >= 1 entries prints its heading, then exactly the
\* first min(5, n) entries in list order, then one line "... and n - 5 more"
\* if and only if n > 5; a category with no entry prints nothing.
C8_DetailSection ==
    pc \in AfterSections =>
        \A cat \in CategorySet :
            LET list == ListOf(cat)
                n    == Len(list)
                m    == IF n < 5 THEN n ELSE 5
                d    == DetailLines(cat)
            IN  IF n = 0 THEN d = <<>>
                ELSE /\ Len(d) = 1 + m + (IF n > 5 THEN 1 ELSE 0)
                     /\ d[1].kind = "section"
                     /\ \A k \in 1..m : d[k + 1].kind = "instance" /\ d[k + 1].inst = list[k]
                     /\ n > 5 => d[Len(d)].kind = "more" /\ d[Len(d)].n = n - 5

\* seven starvation instances: five shown and "... and 2 more instances."
C8_Witness ==
    /\ pc = "done"
    /\ Len(starved_tables) = 7
    /\ Len(DetailLines("starved_tables")) = 7
    /\ DetailLines("starved_tables")[7] = Line("more", "starved_tables", 2, <<>>)

\* C9: in each evidence list the entries are in strictly increasing order of
\* the scan position of their current record (so a position has at most one
\* entry in a list), and every entry's current record is a scan position.
C9_ScanOrder ==
    (pc \in AfterDetect /\ Complete) =>
        \A cat \in CategorySet :
            LET list == ListOf(cat) IN
            /\ \A a \in 1..Len(list) : PosOf(list[a][1]) \in 1..ScanCount(df.rows)
            /\ \A a \in 1..Len(list) : \A b \in 1..Len(list) :
                   a < b => PosOf(list[a][1]) < PosOf(list[b][1])

\* lists of several entries, among them one that skips scan positions
C9_Witness ==
    /\ pc \in AfterDetect /\ Complete
    /\ Len(large_blocking_small) >= 3
    /\ Len(starved_tables) >= 2
    /\ PosOf(large_blocking_small[2][1]) > PosOf(large_blocking_small[1][1]) + 1

\* C10: a record whose priority equals the median priority of the dataset is
\* in neither starved_tables nor high_change_low_priority; and the
\* three-record example yields exactly one large_blocking_small entry, for
\* the pair (1, 2), and an empty starved list.
C10_TieExcluded ==
    (pc \in AfterDetect /\ Complete) =>
        /\ \A j \in 1..Len(df.rows) :
              2 * df.rows[j].CalculatedPriority
                    = MedianTimes2(Column(df.rows, "CalculatedPriority")) =>
                  /\ \A k \in 1..Len(starved_tables) :
                        starved_tables[k][1] # df.rows[j].ID
                  /\ \A k \in 1..Len(high_change_low_priority) :
                        high_change_low_priority[k][1] # df.rows[j].ID
        /\ df.rows = SpecExample =>
              /\ large_blocking_small = <<(<<1, 2, 1000, 10>>)>>
              /\ starved_tables = <<>>

\* a scanned record tied with the median, overdue and with a high change ratio
C10_Witness ==
    /\ pc \in AfterDetect /\ Complete
    /\ \E j \in 1..ScanCount(df.rows) :
          /\ 2 * df.rows[j].CalculatedPriority
                = MedianTimes2(Column(df.rows, "CalculatedPriority"))
          /\ TimeExceeded(df.rows[j])
          /\ ChangeHigh(df.rows, df.rows[j])

====
